---- MODULE Spec2Model ----
(***************************************************************************)
(* State-machine model of the Pants MCP gateway                            *)
(* (src/python/shoalsoft/pants_mcp_plugin/mcp_server.py) and of its        *)
(* predecessor (src/python/shoalsoft/pants_modelcontext_plugin), and of   *)
(* the goal that runs them (goals.py of either package).                   *)
(*                                                                         *)
(* Python strings that the code takes apart (tool names, target addresses, *)
(* resource URIs) are sequences of one-character strings; strings that are *)
(* only compared (schema field names, error kinds) are TLA+ strings.       *)
(***************************************************************************)
EXTENDS Integers, Sequences, FiniteSets, TLC

VARIABLES
    plugin,                  \* which of the two plugin packages is running
    name_to_goal_info,       \* host: all_help_info.name_to_goal_info.values()
    rules,                   \* host: build_config.rules
    universe,                \* host: the targets the build graph may ever hold
    run_stdio_server,        \* host: the McpGoal option of that name
    sys,                     \* the process's sys.stdout and sys.stdin
    mcp_goal,                \* McpGoal.run: its position, locals and result
    session,                 \* the evaluation session the server works with
    server,                  \* the mcp Server object and its transport
    phase,                   \* gateway session state
    goal_name_to_goal_info,  \* setup_and_run_mcp_server local (ordered dict)
    tools,                   \* setup_and_run_mcp_server local
    tools_by_name,           \* setup_and_run_mcp_server local
    goal_map,                \* setup_and_run_mcp_server local
    targets,                 \* host: the current answer to the AllTargets query
    heap,                    \* the io.StringIO objects created so far
    nreq,                    \* number of requests received
    task,                    \* the request handler occupying the event loop
    response                 \* the response last sent to the client

vars == <<plugin, name_to_goal_info, rules, universe, run_stdio_server,
          sys, mcp_goal, session, server, phase,
          goal_name_to_goal_info, tools, tools_by_name, goal_map, targets,
          heap, nreq, task, response>>

config == <<plugin, name_to_goal_info, rules, universe, run_stdio_server>>
process == <<sys, mcp_goal, session, server>>
session_locals == <<goal_name_to_goal_info, tools, tools_by_name, goal_map>>

\* Python None where a string is expected: no string of characters equals it
None == <<"None">>

(***************************************************************************)
(* Bounds                                                                  *)
(***************************************************************************)
MaxCalls == 2      \* requests per session
MaxOut == 1        \* characters a goal writes to each of its streams
MaxTargets == 2    \* targets in the build graph at any time

(***************************************************************************)
(* String helpers (Python str semantics)                                   *)
(***************************************************************************)
startswith(s, p) == Len(s) >= Len(p) /\ SubSeq(s, 1, Len(p)) = p

endswith(s, p) == Len(s) >= Len(p) /\ SubSeq(s, Len(s) - Len(p) + 1, Len(s)) = p

\* index of the first character of s that is in cs, or Len(s) + 1
find(s, cs) ==
    IF \E i \in 1..Len(s) : s[i] \in cs
    THEN CHOOSE i \in 1..Len(s) : s[i] \in cs /\ \A j \in 1..(i - 1) : s[j] \notin cs
    ELSE Len(s) + 1

\* str.split(sep): the list of segments between the occurrences of sep
RECURSIVE split(_, _)
split(s, sep) ==
    LET i == find(s, {sep})
    IN  IF i > Len(s) THEN <<s>>
        ELSE <<SubSeq(s, 1, i - 1)>> \o split(SubSeq(s, i + 1, Len(s)), sep)

(***************************************************************************)
(* Host engine: goals and rules                                            *)
(***************************************************************************)
G_test == <<"t">>
G_export == <<"e">>
G_export_codegen == <<"e", "-", "c">>
G_legacy == <<"x">>

GoalNames == {G_test, G_export_codegen}

\* GoalHelpInfo values: the help system's catalog in iteration order
GoalHelpInfos ==
    {<<>>}
    \cup {<<[name |-> g, is_implemented |-> i]>> : g \in GoalNames, i \in BOOLEAN}
    \cup {<<[name |-> G_test, is_implemented |-> i],
            [name |-> G_export_codegen, is_implemented |-> j]>> : i, j \in BOOLEAN}

\* Goal subclasses (rule output types): name and deprecated_options_scope
Test == [id |-> "Test", is_goal |-> TRUE, name |-> G_test, deprecated |-> None]
Export == [id |-> "Export", is_goal |-> TRUE, name |-> G_export, deprecated |-> None]
ExportCodegen ==
    [id |-> "ExportCodegen", is_goal |-> TRUE, name |-> G_export_codegen, deprecated |-> None]
Legacy == [id |-> "Legacy", is_goal |-> TRUE, name |-> G_legacy, deprecated |-> G_test]
Digest == [id |-> "Digest", is_goal |-> FALSE, name |-> None, deprecated |-> None]

\* a rule is identified with its output_type
RuleSets ==
    {(IF a THEN <<Test>> ELSE <<>>) \o (IF b THEN <<Export>> ELSE <<>>) \o <<Digest>>
        \o (IF c THEN <<ExportCodegen>> ELSE <<>>) \o (IF d THEN <<Legacy>> ELSE <<>>) :
     a, b, c, d \in BOOLEAN}

(***************************************************************************)
(* Startup: goal catalog, tool synthesis, dispatch table                   *)
(***************************************************************************)
\* an insertion-ordered dict is a sequence of [key, value] without repeated keys
dict_keys(d) == {d[i].key : i \in 1..Len(d)}

dict_set(d, k, v) ==
    IF k \in dict_keys(d)
    THEN [i \in 1..Len(d) |-> IF d[i].key = k THEN [key |-> k, value |-> v] ELSE d[i]]
    ELSE Append(d, [key |-> k, value |-> v])

\* _determine_available_goals without its is_implemented test
RECURSIVE determine_available_goals_unfiltered(_)
determine_available_goals_unfiltered(infos) ==
    IF infos = <<>> THEN <<>>
    ELSE LET rest == determine_available_goals_unfiltered(SubSeq(infos, 1, Len(infos) - 1))
             goal_info == infos[Len(infos)]
         IN  dict_set(rest, goal_info.name, goal_info)

RECURSIVE determine_available_goals(_)
determine_available_goals(infos) ==
    IF infos = <<>> THEN <<>>
    ELSE LET rest == determine_available_goals(SubSeq(infos, 1, Len(infos) - 1))
             goal_info == infos[Len(infos)]
         IN  IF goal_info.is_implemented
             THEN dict_set(rest, goal_info.name, goal_info)
             ELSE rest

PANTS_GOAL == <<"p", "a", "n", "t", "s", "-", "g", "o", "a", "l", "-">>

\* f"pants-goal-{goal_name}"
tool_name(goal_name) == PANTS_GOAL \o goal_name

\* the input schema with its field named target_address
input_schema_renamed ==
    [type |-> "object",
     required |-> <<"target_address">>,
     properties |-> [target_address |-> [type |-> "string"]]]

input_schema ==
    [type |-> "object",
     required |-> <<"pants_target_address">>,
     properties |-> [pants_target_address |-> [type |-> "string"]]]

output_schema ==
    [type |-> "object",
     properties |-> [exit_code |-> [type |-> "integer"],
                     stdout |-> [type |-> "string"],
                     stderr |-> [type |-> "string"]],
     required |-> <<"exit_code", "stdout", "stderr">>]

setup_tools(d) ==
    [i \in 1..Len(d) |->
        [name |-> tool_name(d[i].key),
         title |-> d[i].key,
         inputSchema |-> input_schema,
         outputSchema |-> output_schema]]

\* {tool.name: tool for tool in tools}
RECURSIVE index_by_name(_)
index_by_name(ts) ==
    IF ts = <<>> THEN <<>>
    ELSE dict_set(index_by_name(SubSeq(ts, 1, Len(ts) - 1)), ts[Len(ts)].name, ts[Len(ts)])

\* the names one rule registers: [goal, deprecated_goal] if deprecated_goal else [goal]
claimed_names(output_type) ==
    IF output_type.deprecated # None
    THEN <<output_type.name, output_type.deprecated>>
    ELSE <<output_type.name>>

\* the loop over a rule's names without its `in goal_map` test: a later
\* claim replaces an earlier one
RECURSIVE claim_overwriting(_, _, _)
claim_overwriting(acc, names, output_type) ==
    IF names = <<>> THEN acc
    ELSE claim_overwriting(
            [acc EXCEPT !.goal_map = dict_set(@, Head(names), output_type.id)],
            Tail(names), output_type)

\* registers the names of one rule in order; raised is set at the first name
\* that is already claimed
RECURSIVE claim(_, _, _)
claim(acc, names, output_type) ==
    IF acc.raised \/ names = <<>> THEN acc
    ELSE IF Head(names) \in dict_keys(acc.goal_map)
         THEN [acc EXCEPT !.raised = TRUE]
         ELSE claim([acc EXCEPT !.goal_map = dict_set(@, Head(names), output_type.id)],
                    Tail(names), output_type)

RECURSIVE setup_goal_map_from_rules(_)
setup_goal_map_from_rules(rs) ==
    IF rs = <<>> THEN [raised |-> FALSE, goal_map |-> <<>>]
    ELSE LET acc == setup_goal_map_from_rules(SubSeq(rs, 1, Len(rs) - 1))
             output_type == rs[Len(rs)]
         IN  IF acc.raised \/ ~output_type.is_goal THEN acc
             ELSE claim(acc, claimed_names(output_type), output_type)

(***************************************************************************)
(* Host engine: build graph, spec parsing and resolution                   *)
(***************************************************************************)
A_root == <<"/", "/", ":", "t">>
A_dir == <<"a", ":", "t">>
A_gen1 == <<"a", ":", "r", "#", "g">>
A_gen2 == <<"a", ":", "r", "#", "h">>
A_param == <<"a", ":", "t", "@", "p">>

AllAddresses == <<A_root, A_dir, A_gen1, A_gen2, A_param>>

\* the build graphs over a universe u: subsequences of u, at most MaxTargets long
Graphs(u) ==
    {g \in UNION {[1..n -> {u[i] : i \in 1..Len(u)}] : n \in 0..MaxTargets} :
        \A i, j \in 1..Len(g) : i < j =>
            \E a, b \in 1..Len(u) : a < b /\ u[a] = g[i] /\ u[b] = g[j]}

\* Target.alias
alias(address) == IF find(address, {"#"}) <= Len(address) THEN "python_requirement" ELSE "target"

\* Address.target_name
target_name(address) ==
    LET after == SubSeq(address, find(address, {":"}) + 1, Len(address))
    IN  SubSeq(after, 1, find(after, {"#", "@"}) - 1)

\* SpecsParser drops the leading // of a spec
strip_root(spec) == IF startswith(spec, <<"/", "/">>) THEN SubSeq(spec, 3, Len(spec)) ELSE spec

\* SpecsParser.parse_specs raises on an absolute path outside the build root
parse_specs_raises(spec) == startswith(spec, <<"/">>) /\ ~startswith(spec, <<"/", "/">>)

\* the directory of an address or of a spec: the text before the first colon
spec_dir(s) == SubSeq(strip_root(s), 1, find(strip_root(s), {":"}) - 1)

\* session.product_request(Addresses, [Params(specs, ...)]): `dir::` matches
\* every target of the directory (of every directory, for the root); an
\* address literal matches the target of that address and, when it names a
\* target generator, the targets generated from it
resolve(spec, graph) ==
    LET s == strip_root(spec)
        matches(a) ==
            IF endswith(s, <<":", ":">>)
            THEN spec_dir(s) = <<>> \/ spec_dir(a) = spec_dir(s)
            ELSE strip_root(a) = s \/ startswith(strip_root(a), s \o <<"#">>)
    IN  SelectSeq(graph, matches)

(***************************************************************************)
(* Resource URIs                                                           *)
(***************************************************************************)
_PANTS_TARGET_ADDR_SCHEME == <<"p", "a", "n", "t", "s", "-", "t", "a", "r", "g", "e", "t">>

\* abs_spec without its startswith test
abs_spec_always(spec) == <<"/", "/">> \o spec

abs_spec(spec) == IF ~startswith(spec, <<"/", "/">>) THEN <<"/", "/">> \o spec ELSE spec

\* pydantic AnyUrl: scheme ":" ["//" authority] path ["?" query] ["#" fragment];
\* an empty path, query or fragment reads as None
AnyUrl(s) ==
    LET i == find(s, {":"})
        rest == SubSeq(s, i + 1, Len(s))
        has_authority == startswith(rest, <<"/", "/">>)
        r2 == IF has_authority THEN SubSeq(rest, 3, Len(rest)) ELSE rest
        j == IF has_authority THEN find(r2, {"/", "?", "#"}) ELSE 1
        r3 == SubSeq(r2, j, Len(r2))
        k == find(r3, {"?", "#"})
        r4 == SubSeq(r3, k, Len(r3))
        f == find(r4, {"#"})
        opt(x) == IF x = <<>> THEN None ELSE x
    IN  [scheme |-> SubSeq(s, 1, i - 1),
         host |-> IF has_authority THEN SubSeq(r2, 1, j - 1) ELSE None,
         path |-> opt(SubSeq(r3, 1, k - 1)),
         query |-> IF startswith(r4, <<"?">>) THEN opt(SubSeq(r4, 2, f - 1)) ELSE None,
         fragment |-> opt(SubSeq(r4, f + 1, Len(r4)))]

\* str(url): the form of the URL on the wire
url_str(url) ==
    url.scheme \o <<":">>
    \o (IF url.host # None THEN <<"/", "/">> \o url.host ELSE <<>>)
    \o (IF url.path # None THEN url.path ELSE <<>>)
    \o (IF url.query # None THEN <<"?">> \o url.query ELSE <<>>)
    \o (IF url.fragment # None THEN <<"#">> \o url.fragment ELSE <<>>)

\* f"{_PANTS_TARGET_ADDR_SCHEME}://{abs_spec(str(tgt.address))}"
resource_uri(address) == _PANTS_TARGET_ADDR_SCHEME \o <<":", "/", "/">> \o abs_spec(address)

Resource(address) ==
    [name |-> target_name(address),
     uri |-> AnyUrl(resource_uri(address)),
     mimeType |-> "text/json"]

get_pants_target_resources(graph) == [i \in 1..Len(graph) |-> Resource(graph[i])]

(***************************************************************************)
(* Requests, responses and the capture sinks                               *)
(***************************************************************************)
NoGoal == "None"        \* goal_map.get(goal_name) is None
NoError == [kind |-> "none", arg |-> <<>>]

IdleTask ==
    [id |-> 0, kind |-> "none", pc |-> "idle", name |-> <<>>, arguments |-> <<>>,
     goal_name |-> None,
     goal_product |-> NoGoal, stdout |-> 0, stderr |-> 0,
     console |-> [stdout |-> 0, stderr |-> 0],
     out |-> <<>>, err |-> <<>>, exit_code |-> 0, steps |-> <<>>, prev |-> -1]

\* the number of descriptors of the latest list-resources response, -1 if none
listed ==
    IF task.kind = "list_resources" /\ response.id = task.id
    THEN Len(response.value) ELSE task.prev

new_task(kind, name) ==
    [IdleTask EXCEPT !.id = nreq + 1, !.kind = kind, !.pc = "done", !.name = name,
                     !.prev = listed]

NoResponse == [id |-> 0, ok |-> FALSE, error |-> NoError, value |-> <<>>]

raise(t, kind, arg) == [id |-> t.id, ok |-> FALSE, error |-> [kind |-> kind, arg |-> arg], value |-> <<>>]

return(t, value) == [id |-> t.id, ok |-> TRUE, error |-> NoError, value |-> value]

\* a StringIO shared by the session instead of a new one
StringIO_shared(h) == IF h = <<>> THEN 1 ELSE Len(h)

\* io.StringIO(): a reference to an object no earlier call has created
StringIO(h) == Len(h) + 1

\* the heap once the object behind ref exists
allocated(h, ref) == IF ref > Len(h) THEN Append(h, <<>>) ELSE h

\* a result that turns a non-zero exit code into an error
run_goal_result_checked(t, exit_code, h) ==
    IF exit_code # 0 THEN raise(t, "GoalFailed", t.goal_name)
    ELSE return(t, [exit_code |-> exit_code, stdout |-> h[t.stdout], stderr |-> h[t.stderr]])

\* {"exit_code": exit_code, "stdout": stdout.getvalue(), "stderr": stderr.getvalue()}
run_goal_result(t, exit_code, h) ==
    return(t, [exit_code |-> exit_code, stdout |-> h[t.stdout], stderr |-> h[t.stderr]])

value_of(d, k) == d[CHOOSE i \in 1..Len(d) : d[i].key = k].value

Str(v) == [t |-> "str", v |-> v]
Null == [t |-> "null", v |-> <<>>]
IntValue == [t |-> "int", v |-> <<>>]

BAD_SPEC == <<"/", "x">>

\* argument objects a client may send
ArgumentChoices ==
    {<<>>,
     <<[key |-> "pants_target_address", value |-> Null]>>,
     <<[key |-> "pants_target_address", value |-> IntValue]>>,
     <<[key |-> "pants_target_address", value |-> Str(A_root)]>>,
     <<[key |-> "pants_target_address", value |-> Str(BAD_SPEC)]>>,
     <<[key |-> "target_address", value |-> Str(A_root)]>>}

PANTS_RUN_TEST_GOAL ==
    <<"p", "a", "n", "t", "s", "-", "r", "u", "n", "-", "t", "e", "s", "t", "-", "g", "o", "a", "l">>

\* tool names a client may send
ToolNameChoices ==
    {tool_name(G_test), tool_name(G_export_codegen), tool_name(G_export), PANTS_RUN_TEST_GOAL}

OTHER_URI == <<"o", ":", "/", "/", "/", "/", ":", "t">>
GLOB_URI == _PANTS_TARGET_ADDR_SCHEME \o <<":", "/", "/", "/", "/", "a", ":", ":">>
HOST_URI == _PANTS_TARGET_ADDR_SCHEME \o <<":", "/", "/", "h">>
BAD_URI == _PANTS_TARGET_ADDR_SCHEME \o <<":", "/", "/">> \o BAD_SPEC
QUERY_URI == _PANTS_TARGET_ADDR_SCHEME \o <<":", "/", "/", "/", "/", ":", "t", "?", "q">>

\* resource URIs a client may send: those a listing can hold, and others
UriChoices ==
    {url_str(Resource(universe[i]).uri) : i \in 1..Len(universe)}
    \cup {OTHER_URI, GLOB_URI, HOST_URI, BAD_URI, QUERY_URI}

OutChars == {"x"}
ExitCodes == {0, 1}

(***************************************************************************)
(* Initial state: the host configuration and an unstarted server           *)
(***************************************************************************)
MCP == "pants_mcp_plugin"
MODELCONTEXT == "pants_modelcontext_plugin"

\* the catalog and the rule set the other one is varied against
FullCatalog ==
    <<[name |-> G_test, is_implemented |-> TRUE],
      [name |-> G_export_codegen, is_implemented |-> TRUE]>>

FullRules == <<Test, Export, Digest, ExportCodegen>>

\* host configurations: every goal catalog, every rule set, a build graph
\* that holds targets, and the predecessor plugin
ServerHosts ==
    {[plugin |-> MCP, infos |-> i, rules |-> FullRules, universe |-> <<>>] :
        i \in GoalHelpInfos}
    \cup {[plugin |-> MCP, infos |-> FullCatalog, rules |-> r, universe |-> <<>>] :
            r \in RuleSets}
    \cup {[plugin |-> MCP,
           infos |-> <<[name |-> G_test, is_implemented |-> TRUE]>>,
           rules |-> <<Test, Digest>>,
           universe |-> AllAddresses]}
    \cup {[plugin |-> MODELCONTEXT, infos |-> <<>>, rules |-> <<Test, Digest>>,
           universe |-> <<>>]}

\* how the server comes to run: the gateway through McpGoal.run with the
\* option set, the predecessor's setup_and_run_mcp_server called with its
\* keyword arguments; and McpGoal.run of either plugin with the option unset,
\* and of the predecessor with the option set
Hosts ==
    {[plugin |-> h.plugin, infos |-> h.infos, rules |-> h.rules, universe |-> h.universe,
      caller |-> IF h.plugin = MCP THEN "McpGoal" ELSE "direct",
      run_stdio_server |-> h.plugin = MCP] : h \in ServerHosts}
    \cup {[plugin |-> pl, infos |-> FullCatalog, rules |-> FullRules, universe |-> <<>>,
           caller |-> "McpGoal", run_stdio_server |-> FALSE] : pl \in {MCP, MODELCONTEXT}}
    \cup {[plugin |-> MODELCONTEXT, infos |-> FullCatalog, rules |-> FullRules,
           universe |-> <<>>, caller |-> "McpGoal", run_stdio_server |-> TRUE]}

\* the process's streams before the goal runs
STDOUT == "stdout"
STDIN == "stdin"

\* no evaluation session
NoSession == "None"

\* McpGoal.run before it is called
McpGoalStart ==
    [pc |-> "start", saved_stdout |-> "None", saved_stdin |-> "None",
     exit_code |-> -1, error |-> "none"]

\* the server function is called without the goal
NoMcpGoal == [McpGoalStart EXCEPT !.pc = "absent"]

\* no Server object yet
NoServer == [request_handlers |-> {}, transport |-> "closed"]

Init ==
    /\ \E h \in Hosts :
        /\ plugin = h.plugin
        /\ name_to_goal_info = h.infos
        /\ rules = h.rules
        /\ universe = h.universe
        /\ run_stdio_server = h.run_stdio_server
        /\ mcp_goal = IF h.caller = "McpGoal" THEN McpGoalStart ELSE NoMcpGoal
        /\ session = IF h.caller = "McpGoal" THEN NoSession ELSE "given"
    /\ sys = [stdout |-> STDOUT, stdin |-> STDIN]
    /\ server = NoServer
    /\ phase = "Uninitialized"
    /\ goal_name_to_goal_info = <<>>
    /\ tools = <<>>
    /\ tools_by_name = <<>>
    /\ goal_map = <<>>
    /\ targets = <<>>
    /\ heap = <<>>
    /\ nreq = 0
    /\ task = IdleTask
    /\ response = NoResponse

(***************************************************************************)
(* Startup and shutdown                                                    *)
(***************************************************************************)
\* io.TextIOWrapper(os.fdopen(stream.fileno(), ...)): a new object
TextIOWrapper(stream) ==
    IF stream = STDOUT THEN "TextIOWrapper(stdout)" ELSE "TextIOWrapper(stdin)"

\* the finally clause without its second assignment
finally_restore_stdout(streams, g) == [streams EXCEPT !.stdout = g.saved_stdout]

\* the finally clause of _run_server
finally_restore(streams, g) ==
    [streams EXCEPT !.stdout = g.saved_stdout, !.stdin = g.saved_stdin]

\* McpGoal.run is over: it returned ExitCode(0) or an exception left it
ended(g, error) ==
    [g EXCEPT !.pc = IF error = "none" THEN "returned" ELSE "raised",
              !.exit_code = IF error = "none" THEN 0 ELSE @,
              !.error = error]

\* asyncio.run is over: the finally clause, then the return or the exception
leave_run_server(error) ==
    IF mcp_goal.pc = "running"
    THEN /\ sys' = finally_restore(sys, mcp_goal)
         /\ mcp_goal' = ended(mcp_goal, error)
    ELSE UNCHANGED <<sys, mcp_goal>>

\* the outcomes of the two fileno/fdopen lines
SwapOutcomes == {"stdout raises", "stdin raises", "swapped"}

\* _run_server up to the first step of setup_and_run_mcp_server. The
\* predecessor passes its session positionally to a keyword-only function,
\* which raises TypeError before the coroutine exists.
_run_server(swap) ==
    LET g == [mcp_goal EXCEPT !.saved_stdout = sys.stdout, !.saved_stdin = sys.stdin]
        s1 == [sys EXCEPT !.stdout = TextIOWrapper(sys.stdout)]
        s2 == [s1 EXCEPT !.stdin = TextIOWrapper(sys.stdin)]
    IN  /\ session' = "mcp"
        /\ IF swap = "stdout raises"
           THEN /\ sys' = finally_restore(sys, g)
                /\ mcp_goal' = ended(g, "OSError")
                /\ UNCHANGED phase
           ELSE IF swap = "stdin raises"
           THEN /\ sys' = finally_restore(s1, g)
                /\ mcp_goal' = ended(g, "OSError")
                /\ UNCHANGED phase
           ELSE IF plugin = MODELCONTEXT
           THEN /\ sys' = finally_restore(s2, g)
                /\ mcp_goal' = ended(g, "TypeError")
                /\ UNCHANGED phase
           ELSE /\ sys' = s2
                /\ mcp_goal' = [g EXCEPT !.pc = "running"]
                /\ phase' = "Cataloging"

\* McpGoal.run
run ==
    /\ mcp_goal.pc = "start"
    /\ IF run_stdio_server
       THEN \E swap \in SwapOutcomes : _run_server(swap)
       ELSE /\ mcp_goal' = ended(mcp_goal, "none")
            /\ UNCHANGED <<sys, session, phase>>
    /\ UNCHANGED <<config, server, session_locals, targets, heap, nreq, task, response>>

\* the decorators of the gateway with one handler left out
request_handlers_but_one == {"call_tool", "list_tools", "list_resources"}

\* the handlers the decorators of the gateway register
request_handlers == {"call_tool", "list_tools", "list_resources", "read_resource"}

\* setup_and_run_mcp_server from the catalog to the open transport: the
\* catalog, the tools, the dispatch table, the handlers; a name claimed
\* twice aborts the start
setup ==
    /\ plugin = MCP
    /\ phase = "Cataloging"
    /\ LET gn == determine_available_goals(name_to_goal_info)
           ts == setup_tools(gn)
           gm == setup_goal_map_from_rules(rules)
       IN  /\ goal_name_to_goal_info' = gn
           /\ tools' = ts
           /\ tools_by_name' = index_by_name(ts)
           /\ IF gm.raised
              THEN /\ phase' = "Terminated"
                   /\ leave_run_server("Exception")
                   /\ UNCHANGED <<goal_map, server>>
              ELSE /\ phase' = "Serving"
                   /\ goal_map' = gm.goal_map
                   /\ server' = [request_handlers |-> request_handlers,
                                 transport |-> "open"]
                   /\ UNCHANGED <<sys, mcp_goal>>
    /\ UNCHANGED <<config, session, targets, heap, nreq, task, response>>

\* the handlers the decorators of the predecessor register
legacy_request_handlers == {"call_tool", "list_tools"}

\* the predecessor builds nothing before it serves
legacy_setup ==
    /\ plugin = MODELCONTEXT
    /\ mcp_goal.pc = "absent"
    /\ phase = "Uninitialized"
    /\ phase' = "Serving"
    /\ server' = [request_handlers |-> legacy_request_handlers, transport |-> "open"]
    /\ UNCHANGED <<config, sys, mcp_goal, session, session_locals, targets, heap, nreq,
                   task, response>>

\* an event loop that a handler in session.run_goal_rule does not hold, as
\* if the call were awaited
accepting_suspended == phase = "Serving" /\ nreq < MaxCalls

\* the event loop takes a request when no handler holds it
accepting == phase = "Serving" /\ task.pc # "goal" /\ nreq < MaxCalls

\* the peer closes the stream or the transport fails: the stream pair is
\* released, setup_and_run_mcp_server returns or raises, and the handlers'
\* state goes with it
disconnect ==
    /\ phase = "Serving"
    /\ task.pc # "goal"
    /\ phase' = "Terminated"
    /\ server' = [server EXCEPT !.transport = "released"]
    /\ \E error \in {"none", "ExceptionGroup"} : leave_run_server(error)
    /\ task' = IdleTask
    /\ response' = NoResponse
    /\ heap' = <<>>
    /\ nreq' = 0
    /\ UNCHANGED <<config, session, session_locals, targets>>

\* the response is on the wire and the handler's task is over
forget ==
    /\ phase = "Serving"
    /\ task.pc \in {"done", "raised"}
    /\ task' = [IdleTask EXCEPT !.prev = listed]
    /\ response' = NoResponse
    /\ UNCHANGED <<config, process, phase, session_locals, targets, heap, nreq>>

\* the build graph gains or loses a target. A handler below reads the graph
\* in one step, so a change during a request is a change before or after it:
\* the graph changes while no request is being handled.
HostGraphChange ==
    /\ phase = "Serving"
    /\ task.pc = "idle"
    /\ \E g \in Graphs(universe) :
        /\ \E a \in {universe[i] : i \in 1..Len(universe)} :
              \/ {g[i] : i \in 1..Len(g)} = {targets[i] : i \in 1..Len(targets)} \cup {a}
                 /\ Len(g) = Len(targets) + 1
              \/ {g[i] : i \in 1..Len(g)} = {targets[i] : i \in 1..Len(targets)} \ {a}
                 /\ Len(g) = Len(targets) - 1
        /\ targets' = g
    /\ UNCHANGED <<config, process, phase, session_locals, heap, nreq, task, response>>

(***************************************************************************)
(* Tool invocation                                                         *)
(***************************************************************************)
fails(t, kind, arg) ==
    /\ task' = t
    /\ response' = raise(t, kind, arg)
    /\ UNCHANGED heap

\* creates the sinks and the console and enters session.run_goal_rule
enter_goal(t, goal_product) ==
    LET stdout == StringIO(heap)
        h1 == allocated(heap, stdout)
        stderr == StringIO(h1)
    IN  /\ heap' = allocated(h1, stderr)
        /\ task' = [t EXCEPT !.pc = "goal", !.goal_product = goal_product,
                             !.stdout = stdout, !.stderr = stderr,
                             !.console = [stdout |-> stdout, stderr |-> stderr],
                             !.steps = Append(@, "run_goal_rule")]
        /\ UNCHANGED response

step(t, s) == [t EXCEPT !.steps = Append(@, s)]

run_goal(t, goal_name, pants_target_address) ==
    LET t1 == step(step(t, "determine_bootstrap_environment"), "goal_map.get")
    IN  IF goal_name \notin dict_keys(goal_map)
        THEN fails(t1, "UnknownGoal", goal_name)
        ELSE IF parse_specs_raises(pants_target_address)
             THEN fails(step(t1, "parse_specs"), "BadSpecError", pants_target_address)
             ELSE enter_goal(step(t1, "parse_specs"), value_of(goal_map, goal_name))

\* call_tool without its tools_by_name test
known_tool_any(name) == TRUE

\* name in tools_by_name
known_tool(name) == name \in dict_keys(tools_by_name)

\* call_tool without its isinstance test
argument_error_presence(arguments) ==
    IF "pants_target_address" \notin dict_keys(arguments) THEN "ParameterRequired" ELSE "none"

\* the two checks of the pants_target_address parameter, shared by both plugins
argument_error(arguments) ==
    IF "pants_target_address" \notin dict_keys(arguments) THEN "ParameterRequired"
    ELSE IF value_of(arguments, "pants_target_address").t # "str" THEN "ParameterNotStr"
    ELSE "none"

call_tool(name, arguments) ==
    /\ plugin = MCP
    /\ accepting
    /\ "call_tool" \in server.request_handlers
    /\ nreq' = nreq + 1
    /\ LET t == [new_task("call_tool", name) EXCEPT !.arguments = arguments]
       IN  IF ~known_tool(name)
           THEN fails(t, "UnknownTool", name)
           ELSE LET goal_name == split(name, "-")[3]
                    t1 == [t EXCEPT !.goal_name = goal_name]
                IN  IF argument_error(arguments) # "none"
                    THEN fails(t1, argument_error(arguments), name)
                    ELSE run_goal(t1, goal_name, value_of(arguments, "pants_target_address").v)
    /\ UNCHANGED <<config, process, phase, session_locals, targets>>

run_test_goal(t, pants_target_address) ==
    IF parse_specs_raises(pants_target_address)
    THEN fails(step(t, "parse_specs"), "BadSpecError", pants_target_address)
    ELSE enter_goal(step(t, "parse_specs"), Test.id)

legacy_call_tool(name, arguments) ==
    /\ plugin = MODELCONTEXT
    /\ accepting
    /\ "call_tool" \in server.request_handlers
    /\ nreq' = nreq + 1
    /\ LET t == [new_task("call_tool", name) EXCEPT !.arguments = arguments]
       IN  IF name = PANTS_RUN_TEST_GOAL
           THEN IF argument_error(arguments) # "none"
                THEN fails(t, argument_error(arguments), name)
                ELSE run_test_goal(t, value_of(arguments, "pants_target_address").v)
           ELSE fails(t, "UnknownTool", name)
    /\ UNCHANGED <<config, process, phase, session_locals, targets>>

\* the goal writes a character to its console
HostWrite(stream, ch) ==
    /\ task.pc = "goal"
    /\ \/ /\ stream = "stdout"
          /\ Len(task.out) < MaxOut
          /\ heap' = [heap EXCEPT ![task.console.stdout] = Append(@, ch)]
          /\ task' = [task EXCEPT !.out = Append(@, ch)]
       \/ /\ stream = "stderr"
          /\ Len(task.err) < MaxOut
          /\ heap' = [heap EXCEPT ![task.console.stderr] = Append(@, ch)]
          /\ task' = [task EXCEPT !.err = Append(@, ch)]
    /\ UNCHANGED <<config, process, phase, session_locals, targets, nreq, response>>

\* session.run_goal_rule returns and the handler builds its result
HostReturn(exit_code) ==
    /\ task.pc = "goal"
    /\ task' = [task EXCEPT !.pc = "done", !.exit_code = exit_code]
    /\ response' = run_goal_result(task, exit_code, heap)
    /\ UNCHANGED <<config, process, phase, session_locals, targets, heap, nreq>>

\* an exception of session.run_goal_rule that leaves server.run
HostRaise_fatal ==
    /\ task.pc = "goal"
    /\ task' = [task EXCEPT !.pc = "raised"]
    /\ response' = raise(task, "ExecutionError", task.goal_name)
    /\ phase' = "Terminated"
    /\ UNCHANGED <<config, process, session_locals, targets, heap, nreq>>

\* session.run_goal_rule raises and the handler propagates it
HostRaise ==
    /\ task.pc = "goal"
    /\ task' = [task EXCEPT !.pc = "raised"]
    /\ response' = raise(task, "ExecutionError", task.goal_name)
    /\ UNCHANGED <<config, process, phase, session_locals, targets, heap, nreq>>

list_tools ==
    /\ plugin = MCP
    /\ accepting
    /\ "list_tools" \in server.request_handlers
    /\ nreq' = nreq + 1
    /\ task' = new_task("list_tools", <<>>)
    /\ response' = return(task', tools)
    /\ UNCHANGED <<config, process, phase, session_locals, targets, heap>>

legacy_tools ==
    <<[name |-> PANTS_RUN_TEST_GOAL, title |-> G_test,
       inputSchema |-> input_schema, outputSchema |-> output_schema]>>

legacy_list_tools ==
    /\ plugin = MODELCONTEXT
    /\ accepting
    /\ "list_tools" \in server.request_handlers
    /\ nreq' = nreq + 1
    /\ task' = new_task("list_tools", <<>>)
    /\ response' = return(task', legacy_tools)
    /\ UNCHANGED <<config, process, phase, session_locals, targets, heap>>

(***************************************************************************)
(* Resources                                                               *)
(***************************************************************************)
list_resources ==
    /\ plugin = MCP
    /\ accepting
    /\ "list_resources" \in server.request_handlers
    /\ nreq' = nreq + 1
    /\ task' = [new_task("list_resources", <<>>) EXCEPT !.steps = <<"AllTargets">>]
    /\ response' = return(task', get_pants_target_resources(targets))
    /\ UNCHANGED <<config, process, phase, session_locals, targets, heap>>

\* json.dumps({"alias": target.alias, "address": str(target.address)})
ReadResourceContents(address) ==
    [content |-> [alias |-> alias(address), address |-> address], mime_type |-> "text/json"]

\* read_pants_target_resource without its len(addresses) != 1 test
read_pants_target_resource_first(t, url) ==
    LET spec == url.path
        t1 == step(step(step(t, "parse_specs"), "determine_bootstrap_environment"), "Addresses")
        addresses == resolve(spec, targets)
    IN  IF spec = None THEN fails(t, "AssertionError", <<>>)
        ELSE IF parse_specs_raises(spec) THEN fails(step(t, "parse_specs"), "BadSpecError", spec)
        ELSE IF Len(addresses) = 0 THEN fails(t1, "NoTargetFound", spec)
        ELSE /\ task' = step(t1, "WrappedTarget")
             /\ response' = return(t, <<ReadResourceContents(addresses[1])>>)
             /\ UNCHANGED heap

read_pants_target_resource(t, url) ==
    LET spec == url.path
        t1 == step(step(step(t, "parse_specs"), "determine_bootstrap_environment"), "Addresses")
        addresses == resolve(spec, targets)
    IN  IF spec = None THEN fails(t, "AssertionError", <<>>)
        ELSE IF parse_specs_raises(spec) THEN fails(step(t, "parse_specs"), "BadSpecError", spec)
        ELSE IF Len(addresses) = 0 THEN fails(t1, "NoTargetFound", spec)
        ELSE IF Len(addresses) # 1 THEN fails(t1, "MultipleTargets", spec)
        ELSE /\ task' = step(t1, "WrappedTarget")
             /\ response' = return(t, <<ReadResourceContents(addresses[1])>>)
             /\ UNCHANGED heap

\* read_resource without its test of url.scheme
read_resource_any_scheme ==
    /\ plugin = MCP
    /\ accepting
    /\ "read_resource" \in server.request_handlers
    /\ nreq' = nreq + 1
    /\ \E uri \in UriChoices :
          read_pants_target_resource(new_task("read_resource", uri), AnyUrl(uri))
    /\ UNCHANGED <<config, process, phase, session_locals, targets>>

\* uri is the URI on the wire; the handler receives it parsed
read_resource ==
    /\ plugin = MCP
    /\ accepting
    /\ "read_resource" \in server.request_handlers
    /\ nreq' = nreq + 1
    /\ \E uri \in UriChoices :
          LET url == AnyUrl(uri)
              t == new_task("read_resource", uri)
          IN  IF url.scheme = _PANTS_TARGET_ADDR_SCHEME
              THEN read_pants_target_resource(t, url)
              ELSE fails(t, "UnknownResource", url_str(url))
    /\ UNCHANGED <<config, process, phase, session_locals, targets>>

(***************************************************************************)
(* Specification                                                           *)
(***************************************************************************)
Next ==
    \/ run
    \/ setup
    \/ legacy_setup
    \/ disconnect
    \/ forget
    \/ HostGraphChange
    \/ \E name \in ToolNameChoices, arguments \in ArgumentChoices : call_tool(name, arguments)
    \/ \E name \in ToolNameChoices, arguments \in ArgumentChoices :
          legacy_call_tool(name, arguments)
    \/ \E stream \in {"stdout", "stderr"}, ch \in OutChars : HostWrite(stream, ch)
    \/ \E exit_code \in ExitCodes : HostReturn(exit_code)
    \/ HostRaise
    \/ list_tools
    \/ legacy_list_tools
    \/ list_resources
    \/ read_resource

Spec == Init /\ [][Next]_vars

(***************************************************************************)
(* Properties                                                              *)
(***************************************************************************)
elements(seq) == {seq[i] : i \in 1..Len(seq)}

\* the handler of the current request reached session.run_goal_rule
ran_goal == "run_goal_rule" \in elements(task.steps)

\* the current request has been answered
answered == task.kind # "none" /\ task.pc # "goal" /\ response.id = task.id

\* the tools a list-tools request of this session returns
listed_tools == IF plugin = MCP THEN tools ELSE legacy_tools

listed_names == {listed_tools[i].name : i \in 1..Len(listed_tools)}

implemented_goals ==
    {name_to_goal_info[i].name :
        i \in {j \in 1..Len(name_to_goal_info) : name_to_goal_info[j].is_implemented}}

\* C1: for every implemented goal G, the goal name call-tool extracts from
\* the tool name synthesized for G is G, and the goal a call to that tool
\* executes is the handler registered for G.
C1_ExtractsOwnGoal ==
    \A G \in dict_keys(goal_name_to_goal_info) :
        (/\ plugin = MCP /\ task.kind = "call_tool" /\ task.name = tool_name(G)
         /\ "pants_target_address" \in dict_keys(task.arguments)
         /\ value_of(task.arguments, "pants_target_address").t = "str") =>
            /\ task.goal_name = G
            /\ ran_goal => (G \in dict_keys(goal_map)
                            /\ task.goal_product = value_of(goal_map, G))

\* C2: a list-tools response holds exactly one tool for every goal flagged
\* implemented, no tool of any other goal, and no name twice.
C2_OneToolPerImplementedGoal ==
    (plugin = MCP /\ task.kind = "list_tools" /\ answered) =>
        /\ response.ok
        /\ \A g \in implemented_goals :
              Cardinality({i \in 1..Len(response.value) :
                              response.value[i].name = tool_name(g)}) = 1
        /\ \A i \in 1..Len(response.value) :
              \E g \in implemented_goals : response.value[i].name = tool_name(g)
        /\ \A i, j \in 1..Len(response.value) :
              response.value[i].name = response.value[j].name => i = j

C2_Witness ==
    /\ plugin = MCP /\ task.kind = "list_tools" /\ answered
    /\ Len(response.value) = 1
    /\ Len(name_to_goal_info) = 2

output_required_ok(tool) ==
    /\ elements(tool.outputSchema.required) = {"exit_code", "stdout", "stderr"}
    /\ Len(tool.outputSchema.required) = 3

\* the call-tool request was rejected for its address parameter
parameter_error ==
    answered /\ ~response.ok /\ response.error.kind \in {"ParameterRequired", "ParameterNotStr"}

\* the argument object holds a string under the given field name
has_string(arguments, field) ==
    field \in dict_keys(arguments) /\ value_of(arguments, field).t = "str"

\* C3 as stated: every listed tool's single required input field is
\* `target_address`, a string, and its required output fields are exactly
\* exit_code, stdout and stderr.
C3_RequiresTargetAddress ==
    (task.kind = "list_tools" /\ answered) =>
        \A i \in 1..Len(response.value) :
            /\ response.value[i].inputSchema.required = <<"target_address">>
            /\ "target_address" \in DOMAIN response.value[i].inputSchema.properties
            /\ output_required_ok(response.value[i])

\* C3 amended: every listed tool's single required input field is
\* `pants_target_address`, a string; call-tool rejects the argument object of
\* a known tool exactly when it holds no string under that field; and the
\* required output fields are exactly exit_code, stdout and stderr.
C3_RequiresPantsTargetAddress ==
    /\ (task.kind = "list_tools" /\ answered) =>
          \A i \in 1..Len(response.value) :
              /\ response.value[i].inputSchema.required = <<"pants_target_address">>
              /\ DOMAIN response.value[i].inputSchema.properties = {"pants_target_address"}
              /\ response.value[i].inputSchema.properties.pants_target_address.type = "string"
              /\ output_required_ok(response.value[i])
    /\ (task.kind = "call_tool" /\ task.name \in listed_names) =>
          LET tool == CHOOSE tl \in elements(listed_tools) : tl.name = task.name
          IN  parameter_error <=> ~has_string(task.arguments, tool.inputSchema.required[1])

C3_Witness ==
    /\ task.kind = "call_tool" /\ task.name \in listed_names
    /\ parameter_error
    /\ has_string(task.arguments, "target_address")

\* C4: a call-tool request whose tool name is not a listed tool fails with
\* `Unknown tool: <name>` and makes no host-engine call.
C4_UnknownToolNoHostCall ==
    (task.kind = "call_tool" /\ task.name \notin listed_names) =>
        /\ answered
        /\ response = raise(task, "UnknownTool", task.name)
        /\ task.steps = <<>>
        /\ task.stdout = 0 /\ task.stderr = 0

C4_Witness ==
    /\ plugin = MCP /\ task.kind = "call_tool" /\ task.name \notin listed_names
    /\ tools # <<>>
    /\ response.error.kind = "UnknownTool"

\* C5: a call-tool request for a known tool whose argument object lacks the
\* address field, or holds null or a non-string under it, fails with a
\* parameter error naming the tool, and no goal execution is attempted.
C5_BadAddressRejected ==
    (/\ task.kind = "call_tool" /\ task.name \in listed_names
     /\ ~has_string(task.arguments, "pants_target_address")) =>
        /\ parameter_error
        /\ response.error.arg = task.name
        /\ ~ran_goal
        /\ task.stdout = 0 /\ task.stderr = 0

C5_Witness ==
    /\ task.kind = "call_tool" /\ task.name \in listed_names
    /\ "pants_target_address" \in dict_keys(task.arguments)
    /\ value_of(task.arguments, "pants_target_address").t = "null"
    /\ response.error.kind = "ParameterNotStr"

\* C6: when goal execution returns, the call succeeds with the exit code the
\* host engine returned and with the stdout and stderr the goal wrote; a
\* non-zero exit code is not an error.
C6_ResultVerbatim ==
    (task.kind = "call_tool" /\ task.pc = "done" /\ ran_goal) =>
        /\ response.id = task.id
        /\ response.ok
        /\ response.value.exit_code = task.exit_code
        /\ response.value.stdout = task.out
        /\ response.value.stderr = task.err

C6_Witness ==
    /\ task.kind = "call_tool" /\ task.pc = "done" /\ ran_goal
    /\ response.ok
    /\ response.value.exit_code = 1
    /\ response.value.stdout = <<>>
    /\ response.value.stderr # <<>>

\* C7: the sinks and the console of a tool call belong to that call alone:
\* from the start of its goal execution on, its two sinks are distinct
\* objects that hold what its own goal wrote and nothing of any other call.
C7_SinksPerCall ==
    (task.kind = "call_tool" /\ ran_goal) =>
        /\ task.stdout # task.stderr
        /\ task.console = [stdout |-> task.stdout, stderr |-> task.stderr]
        /\ heap[task.stdout] = task.out
        /\ heap[task.stderr] = task.err

\* a second tool call that wrote nothing, after a first one that wrote to
\* both of its streams
C7_Witness ==
    /\ task.kind = "call_tool" /\ task.pc = "done" /\ ran_goal
    /\ Len(heap) = 4
    /\ heap[1] # <<>> /\ heap[2] # <<>>
    /\ response.ok
    /\ response.value.stdout = <<>> /\ response.value.stderr = <<>>

\* the spec of the URI of the current read-resource request, and what it
\* resolves to in the build graph (which has not changed since the request)
read_spec == AnyUrl(task.name).path

read_resolves == read_spec # None /\ ~parse_specs_raises(read_spec)

read_addresses == IF read_resolves THEN resolve(read_spec, targets) ELSE <<>>

target_read == task.kind = "read_resource" /\ AnyUrl(task.name).scheme = _PANTS_TARGET_ADDR_SCHEME

fetched == "WrappedTarget" \in elements(task.steps)

\* C8: read-resource on a target-scheme URI returns one JSON entry
\* {alias, address} if and only if the URI's spec resolves to exactly one
\* address; zero addresses fail with no-target-found, more than one with
\* multiple-targets-matched, and neither failure fetches target metadata.
C8_ExactlyOneMatch ==
    target_read =>
        /\ answered
        /\ response.ok <=> (read_resolves /\ Len(read_addresses) = 1)
        /\ response.ok =>
              /\ response.value =
                    <<[content |-> [alias |-> alias(read_addresses[1]),
                                    address |-> read_addresses[1]],
                       mime_type |-> "text/json"]>>
              /\ fetched
        /\ (read_resolves /\ Len(read_addresses) = 0) =>
              (response.error = [kind |-> "NoTargetFound", arg |-> read_spec] /\ ~fetched)
        /\ (read_resolves /\ Len(read_addresses) > 1) =>
              (response.error = [kind |-> "MultipleTargets", arg |-> read_spec] /\ ~fetched)

C8_Witness ==
    /\ target_read /\ answered
    /\ Len(read_addresses) = 2
    /\ response.error.kind = "MultipleTargets"

\* C9: for every target of the build graph, the URI that list-resources
\* builds for it, passed to read-resource, resolves to that target and
\* returns its address.
C9_RoundTrip ==
    \A i \in 1..Len(targets) :
        (task.kind = "read_resource"
         /\ task.name = url_str(Resource(targets[i]).uri)) =>
            /\ answered
            /\ response.ok
            /\ Len(response.value) = 1
            /\ response.value[1].content.address = targets[i]

\* the text of a listed URI after `<scheme>://`
uri_spec(uri) == SubSeq(uri, Len(_PANTS_TARGET_ADDR_SCHEME) + 4, Len(uri))

\* C10: a list-resources response holds exactly one descriptor per target
\* the host engine knows at the time of the request, in the fixed scheme,
\* with a spec that begins with `//` and is the target's address, prefixed
\* with `//` only when the address does not start with it.
C10_OneDescriptorPerTarget ==
    task.kind = "list_resources" =>
        /\ answered
        /\ response.ok
        /\ Len(response.value) = Len(targets)
        /\ \A i \in 1..Len(targets) :
              LET uri == url_str(response.value[i].uri)
                  address == targets[i]
              IN  /\ response.value[i].uri.scheme = _PANTS_TARGET_ADDR_SCHEME
                  /\ startswith(uri, _PANTS_TARGET_ADDR_SCHEME \o <<":", "/", "/">>)
                  /\ startswith(uri_spec(uri), <<"/", "/">>)
                  /\ uri_spec(uri) =
                        (IF startswith(address, <<"/", "/">>) THEN address
                         ELSE <<"/", "/">> \o address)

\* a listing after an empty one, with an address that needed the prefix and
\* one that did not
C10_Witness ==
    /\ task.kind = "list_resources" /\ answered
    /\ task.prev = 0
    /\ targets = <<A_root, A_dir>>

\* the rules whose output type is a goal
goal_rules == {i \in 1..Len(rules) : rules[i].is_goal}

\* the names a goal type answers to
names_of(output_type) ==
    {output_type.name} \cup
        (IF output_type.deprecated # None THEN {output_type.deprecated} ELSE {})

\* two goal rules answer to one name
name_collision ==
    \E i, j \in goal_rules : i # j /\ names_of(rules[i]) \cap names_of(rules[j]) # {}

\* C11: if two goal-shaped handlers claim the same name (as primary name or
\* as deprecated alias), building the dispatch table raises and startup
\* aborts before the transport is opened, so no request is ever served; if
\* the build succeeds, every goal-shaped handler is registered under its
\* primary name and its alias, and each registered name maps to exactly one
\* handle.
C11_DuplicateClaimAborts ==
    plugin = MCP =>
        /\ name_collision =>
              /\ phase \in {"Uninitialized", "Cataloging", "Terminated"}
              /\ server = NoServer
              /\ nreq = 0 /\ task = IdleTask /\ response = NoResponse
              /\ phase = "Terminated" => mcp_goal.error = "Exception"
        /\ server.transport # "closed" =>
              /\ \A i \in goal_rules : \A n \in names_of(rules[i]) :
                    /\ n \in dict_keys(goal_map)
                    /\ value_of(goal_map, n) = rules[i].id
              /\ \A k, l \in 1..Len(goal_map) : goal_map[k].key = goal_map[l].key => k = l
              /\ \A k \in 1..Len(goal_map) :
                    \E i \in goal_rules : goal_map[k].key \in names_of(rules[i])

\* the start was aborted by a primary name that is another goal's alias
C11_Witness ==
    /\ plugin = MCP /\ name_collision
    /\ phase = "Terminated"
    /\ mcp_goal.pc = "raised" /\ mcp_goal.error = "Exception"
    /\ sys = [stdout |-> STDOUT, stdin |-> STDIN]

\* the catalog, the tool list, the index and the dispatch table are what the
\* host's help information and rules make them
built ==
    /\ goal_name_to_goal_info = determine_available_goals(name_to_goal_info)
    /\ tools = setup_tools(goal_name_to_goal_info)
    /\ tools_by_name = index_by_name(tools)
    /\ goal_map = setup_goal_map_from_rules(rules).goal_map

\* a request has been handled or is being handled
handling == nreq > 0 \/ task.kind # "none" \/ response # NoResponse

C12_States ==
    /\ phase \in {"Uninitialized", "Cataloging", "Serving", "Terminated"}
    /\ phase \in {"Uninitialized", "Cataloging"} =>
          /\ session_locals = <<<<>>, <<>>, <<>>, <<>>>>
          /\ server = NoServer
          /\ ~handling
    /\ phase = "Serving" =>
          /\ built
          /\ server = [request_handlers |->
                          {"list_tools", "call_tool", "list_resources", "read_resource"},
                       transport |-> "open"]
    /\ handling => phase = "Serving"
    /\ (phase = "Terminated" /\ server.transport = "closed") =>
          /\ server = NoServer
          /\ mcp_goal.pc = "raised"
    /\ (phase = "Terminated" /\ server.transport # "closed") =>
          /\ built
          /\ server.transport = "released"
          /\ mcp_goal.pc \in {"returned", "raised"}

C12_Steps ==
    /\ phase' # phase =>
          <<phase, phase'>> \in {<<"Uninitialized", "Cataloging">>,
                                <<"Cataloging", "Serving">>,
                                <<"Cataloging", "Terminated">>,
                                <<"Serving", "Terminated">>}
    /\ session_locals' # session_locals => (phase = "Cataloging" /\ phase' # "Cataloging")
    /\ server'.request_handlers # server.request_handlers => phase = "Cataloging"
    /\ (phase = "Cataloging" /\ phase' = "Terminated") => (server' = NoServer /\ ~handling')
    /\ (phase = "Serving" /\ phase' = "Terminated") =>
          /\ server'.transport = "released"
          /\ mcp_goal'.pc \in {"returned", "raised"}

\* C12: the gateway session only moves Uninitialized -> Cataloging ->
\* Serving -> Terminated: the goal catalog, tool list and dispatch table are
\* built exactly once, no request is handled before all three are built and
\* all four handlers (list-tools, call-tool, list-resources, read-resource)
\* are registered, a cataloging failure goes to termination without ever
\* serving, and on peer disconnect the session releases the transport and
\* returns to the caller.
C12_Lifecycle ==
    /\ [](plugin = MCP => C12_States)
    /\ [][plugin = MCP => C12_Steps]_vars

\* the peer disconnected from a session that served tools
C12_Witness ==
    /\ plugin = MCP /\ phase = "Terminated"
    /\ server.transport = "released"
    /\ mcp_goal.pc = "returned" /\ mcp_goal.exit_code = 0
    /\ Len(tools) = 2

\* C13: read-resource on a URI whose scheme is not the fixed target-resource
\* scheme always fails with an unknown-resource error, without any spec
\* resolution or target fetch against the host engine.
C13_OtherSchemeUnknown ==
    (task.kind = "read_resource" /\ AnyUrl(task.name).scheme # _PANTS_TARGET_ADDR_SCHEME) =>
        /\ answered
        /\ ~response.ok
        /\ response.error = [kind |-> "UnknownResource", arg |-> url_str(AnyUrl(task.name))]
        /\ task.steps = <<>>
        /\ task.pc = "done"

\* a URI of another scheme whose path is the address of a target in the graph
C13_Witness ==
    /\ task.kind = "read_resource" /\ answered
    /\ AnyUrl(task.name).scheme # _PANTS_TARGET_ADDR_SCHEME
    /\ AnyUrl(task.name).path \in elements(targets)
    /\ response.error.kind = "UnknownResource"

\* C14: after the server-running entry point finishes, whether the session
\* ended normally or the stream swap, startup or serving raised, the
\* process's standard input and standard output are the same objects they
\* were before the server was started; and when the run-server option is not
\* set, the goal never swaps the streams or starts the server and returns
\* exit code 0.
C14_StreamsRestored ==
    mcp_goal.pc # "absent" =>
        /\ mcp_goal.pc \in {"returned", "raised"} =>
              (sys.stdout = STDOUT /\ sys.stdin = STDIN)
        /\ ~run_stdio_server =>
              /\ sys = [stdout |-> STDOUT, stdin |-> STDIN]
              /\ phase = "Uninitialized"
              /\ server = NoServer /\ session = NoSession
              /\ mcp_goal.pc \in {"start", "returned"}
              /\ mcp_goal.pc = "returned" => mcp_goal.exit_code = 0

\* the entry point was left by an exception of the serving session
C14_Witness ==
    /\ run_stdio_server
    /\ mcp_goal.pc = "raised" /\ mcp_goal.error = "ExceptionGroup"
    /\ mcp_goal.saved_stdout = STDOUT /\ mcp_goal.saved_stdin = STDIN
    /\ phase = "Terminated" /\ server.transport = "released"
    /\ sys = [stdout |-> STDOUT, stdin |-> STDIN]

\* the address string of the current call-tool request
call_address == value_of(task.arguments, "pants_target_address").v

\* the error of the first step that fails, taking the steps of call-tool in
\* the order tool-name check, goal-name extraction, argument validation,
\* address-string resolution, dispatch-table lookup, goal execution
first_failing_step ==
    IF task.name \notin listed_names THEN "UnknownTool"
    ELSE IF "pants_target_address" \notin dict_keys(task.arguments) THEN "ParameterRequired"
    ELSE IF ~has_string(task.arguments, "pants_target_address") THEN "ParameterNotStr"
    ELSE IF parse_specs_raises(call_address) THEN "BadSpecError"
    ELSE IF task.goal_name \notin dict_keys(goal_map) THEN "UnknownGoal"
    ELSE "none"

\* C15: call-tool performs its steps in the listed order (tool-name check,
\* goal-name extraction, argument validation, address-string resolution,
\* dispatch-table lookup, goal execution) and the first failing step
\* determines the error: a request whose address string is unparsable and
\* whose goal has no dispatch entry fails with the host engine's spec error,
\* not with `Unknown goal`.
C15_FirstFailingStep ==
    (plugin = MCP /\ task.kind = "call_tool") =>
        IF first_failing_step = "none"
        THEN ran_goal
        ELSE /\ answered
             /\ ~response.ok
             /\ response.error.kind = first_failing_step
             /\ ~ran_goal

\* a step of a request handler: a request is taken, or the handler that
\* holds the event loop goes on
request_step == phase = "Serving" /\ (nreq' = nreq + 1 \/ task.pc = "goal")

C16_Steps ==
    request_step =>
        /\ tools' = tools
        /\ tools_by_name' = tools_by_name
        /\ goal_map' = goal_map
        /\ goal_name_to_goal_info' = goal_name_to_goal_info
        /\ session' = session
        /\ server' = server
        /\ phase' = "Serving"

\* what the first list-tools response of the session holds
first_listing ==
    IF plugin = MCP THEN setup_tools(determine_available_goals(name_to_goal_info))
    ELSE legacy_tools

\* C16: no request, successful or failed, changes the tool list, the
\* tool-name index, the dispatch table or the evaluation-session handle:
\* after any sequence of requests, including ones that ended in an input
\* error or a host-engine error, the session is still serving and list-tools
\* returns the same tools in the same order as its first response.
C16_RequestsChangeNothing ==
    /\ [][C16_Steps]_vars
    /\ []((task.kind = "list_tools" /\ answered) =>
            (response.ok /\ response.value = first_listing /\ phase = "Serving"))
    /\ []((phase = "Serving" /\ plugin = MCP) => tools = first_listing)

\* a list-tools response after a tool call of the same session that ran its
\* goal
C16_Witness ==
    /\ plugin = MCP
    /\ task.kind = "list_tools" /\ answered /\ task.id = 2
    /\ Len(heap) = 2
    /\ Len(response.value) = 2

\* the current request is a call to a listed tool with a string address
listed_call ==
    /\ task.kind = "call_tool" /\ task.name \in listed_names
    /\ has_string(task.arguments, "pants_target_address")

\* C17: once the session is serving, every goal that has a listed tool has
\* an entry in the dispatch table under that goal's name, so a call to a
\* listed tool with a string address never fails with `Unknown goal`.
C17_ListedGoalDispatched ==
    (plugin = MCP /\ phase = "Serving") =>
        /\ \A G \in dict_keys(goal_name_to_goal_info) :
              tool_name(G) \in listed_names => G \in dict_keys(goal_map)
        /\ listed_call => ~(answered /\ response.error.kind = "UnknownGoal")

\* the goal executions of the current request
executions(steps) == {i \in 1..Len(steps) : steps[i] = "run_goal_rule"}

\* while a goal executes, the next step is a step of that execution: no
\* request is taken, the session goes on, and only the sinks of the
\* execution are written
C18_Steps ==
    task.pc = "goal" =>
        /\ nreq' = nreq
        /\ task'.id = task.id /\ task'.kind = "call_tool" /\ task'.name = task.name
        /\ task'.steps = task.steps
        /\ <<task'.stdout, task'.stderr>> = <<task.stdout, task.stderr>>
        /\ phase' = "Serving"
        /\ Len(heap') = Len(heap)
        /\ \A i \in 1..Len(heap) :
              heap'[i] # heap[i] => i \in {task.stdout, task.stderr}

\* C18: within one session at most one goal execution is in progress at any
\* time: a tool call has no suspension point between creating its capture
\* sinks and returning its result, so from the start of a goal execution
\* until it returns no other request handler (call-tool, list-tools,
\* list-resources, read-resource) runs, and each call-tool request triggers
\* at most one goal execution.
C18_OneExecutionAtATime ==
    /\ [][C18_Steps]_vars
    /\ [](Cardinality(executions(task.steps)) <= 1)
    /\ [](task.kind # "call_tool" => executions(task.steps) = {})
    /\ [](Len(heap) <= 2 * nreq)
    /\ [](task.pc = "goal" =>
            (task.kind = "call_tool" /\ ran_goal /\ response.id # task.id))

\* the second goal execution of a session, in progress after the first
\* returned
C18_Witness ==
    /\ task.kind = "call_tool" /\ task.pc = "goal" /\ task.id = 2
    /\ Len(heap) = 4
    /\ task.err # <<>>

====
